---- MODULE Spec2Model ----
(***************************************************************************)
(* Model of temporal.agent.runner.Runner (src/src/temporal/agent/runner.py) *)
(*                                                                         *)
(* The Runner's Session State is the four fields client, worker,           *)
(* worker_task and workflow_id.  One caller drives the Runner              *)
(* (__aenter__, __aexit__, prompt, thoughts); its position inside a call   *)
(* is pc, and every await of the code is a step boundary.  The background  *)
(* worker tasks run concurrently with the caller.  The execution engine is *)
(* the set of workflow identifiers it has accepted.                        *)
(***************************************************************************)
EXTENDS Integers, Sequences, FiniteSets, TLC

\* ------------------------------------------------------------------ bounds
\* Number of nodes of an agent tree.
MaxNodes == 3
\* Number of capability occurrences of an agent tree.
MaxFns == 3
\* Number of __aenter__ calls on one Runner.
MaxEnter == 2
\* Number of Client.connect attempts on one Runner.
MaxConnects == 3
\* Largest watermark passed to thoughts.
MaxWatermark == 1
\* Number of Runner constructions on one agent tree.
MaxConstructs == 2
\* Number of progress records one workflow produces.
MaxRecords == 2
\* Number of nodes of an agent tree that carries names only.
MaxAgents == 4

Names == {"a", "b"}
Caps == {"f", "g"}
Prompts == {"hi"}

\* Python's None, and a field that holds the object numbered n.
None == <<>>
Some(n) == <<n>>
Num(h) == h[1]

\* ------------------------------------------------------------ agent trees
\* An Agent is [name, functions, sub_agents].  A node of a tree is named by
\* its path: the indices of the children taken from the root.
Leaf(nm, fs) == [name |-> nm, functions |-> fs, sub_agents |-> <<>>]

RECURSIVE PathsOf(_)
PathsOf(ag) ==
  {<<>>} \cup UNION { { <<i>> \o p : p \in PathsOf(ag.sub_agents[i]) }
                      : i \in DOMAIN ag.sub_agents }

RECURSIVE NodeAt(_, _)
NodeAt(ag, p) ==
  IF p = <<>> THEN ag ELSE NodeAt(ag.sub_agents[Head(p)], Tail(p))

\* The capability occurrences of a tree: <<path of the agent, index in its list>>.
Occurrences(ag) ==
  UNION { { <<p, i>> : i \in DOMAIN NodeAt(ag, p).functions } : p \in PathsOf(ag) }

\* The caller appends a capability to the agent at path p.
RECURSIVE WithFunction(_, _, _)
WithFunction(ag, p, fn) ==
  IF p = <<>> THEN [ag EXCEPT !.functions = Append(@, fn)]
  ELSE [ag EXCEPT !.sub_agents[Head(p)] = WithFunction(@, Tail(p), fn)]

\* The caller appends a sub-agent to the agent at path p.
RECURSIVE WithSubAgent(_, _, _)
WithSubAgent(ag, p, sub) ==
  IF p = <<>> THEN [ag EXCEPT !.sub_agents = Append(@, sub)]
  ELSE [ag EXCEPT !.sub_agents[Head(p)] = WithSubAgent(@, Tail(p), sub)]

\* The agent of the session specification: a root with one capability and
\* two children of one capability each.
DefaultAgent ==
  [name |-> "a", functions |-> <<"f">>,
   sub_agents |-> << Leaf("a", <<"g">>), Leaf("b", <<"f">>) >>]

\* ------------------------------------------------- Runner._agent_hierarchy
\* { sub_agent.name: self._agent_hierarchy(sub_agent) for sub_agent in ... }:
\* a dict comprehension, so a later sibling of the same name replaces the
\* earlier one.
\* The earlier sibling of a name is kept instead of the later one.
FirstNamed(subs, nm) ==
  CHOOSE i \in DOMAIN subs :
    /\ subs[i].name = nm
    /\ \A j \in DOMAIN subs : subs[j].name = nm => i <= j

LastNamed(subs, nm) ==
  CHOOSE i \in DOMAIN subs :
    /\ subs[i].name = nm
    /\ \A j \in DOMAIN subs : subs[j].name = nm => j <= i

RECURSIVE _agent_hierarchy(_)
_agent_hierarchy(ag) ==
  LET subs == ag.sub_agents
      keys == { subs[i].name : i \in DOMAIN subs }
  IN  [nm \in keys |-> _agent_hierarchy(subs[LastNamed(subs, nm)])]

\* -------------------------------------------- Runner._functions_to_activities
\* The first loop: a capability without the activity-definition attribute is
\* passed to activity.defn (which sets the attribute); every capability is
\* appended.  acc is [functions, marked, defns]: the list built so far, the
\* capabilities carrying the attribute, and the calls of activity.defn made.
\* The first loop without the hasattr test: activity.defn on every capability.
RECURSIVE MarkOwnAlways(_, _, _)
MarkOwnAlways(fs, i, acc) ==
  IF i > Len(fs) THEN acc
  ELSE MarkOwnAlways(fs, i + 1,
                     [functions |-> Append(acc.functions, fs[i]),
                      marked    |-> acc.marked \cup {fs[i]},
                      defns     |-> Append(acc.defns, fs[i])])

RECURSIVE MarkOwn(_, _, _)
MarkOwn(fs, i, acc) ==
  IF i > Len(fs) THEN acc
  ELSE LET fn == fs[i]
           new == fn \notin acc.marked
       IN  MarkOwn(fs, i + 1,
                   [functions |-> Append(acc.functions, fn),
                    marked    |-> IF new THEN acc.marked \cup {fn} ELSE acc.marked,
                    defns     |-> IF new THEN Append(acc.defns, fn) ELSE acc.defns])

\* The same traversal with the children visited before the agent's own
\* capabilities.
RECURSIVE ChildrenFirstActivities(_, _)
RECURSIVE ChildrenFirstSubs(_, _, _)
ChildrenFirstSubs(subs, i, acc) ==
  IF i > Len(subs) THEN acc
  ELSE LET r == ChildrenFirstActivities(subs[i], acc.marked)
       IN  ChildrenFirstSubs(subs, i + 1,
                             [functions |-> acc.functions \o r.functions,
                              marked    |-> r.marked,
                              defns     |-> acc.defns \o r.defns])

ChildrenFirstActivities(ag, marked) ==
  LET kids == ChildrenFirstSubs(ag.sub_agents, 1,
                                [functions |-> <<>>, marked |-> marked, defns |-> <<>>])
  IN  MarkOwn(ag.functions, 1, kids)

RECURSIVE _functions_to_activities(_, _)
RECURSIVE ExtendSubs(_, _, _)
\* The second loop: functions.extend(self._functions_to_activities(sub_agent)).
ExtendSubs(subs, i, acc) ==
  IF i > Len(subs) THEN acc
  ELSE LET r == _functions_to_activities(subs[i], acc.marked)
       IN  ExtendSubs(subs, i + 1,
                      [functions |-> acc.functions \o r.functions,
                       marked    |-> r.marked,
                       defns     |-> acc.defns \o r.defns])

_functions_to_activities(ag, marked) ==
  LET own == MarkOwn(ag.functions, 1,
                     [functions |-> <<>>, marked |-> marked, defns |-> <<>>])
  IN  ExtendSubs(ag.sub_agents, 1, own)

\* ------------------------------------------------------------------- state
VARIABLES
  agent,            \* the agent tree handed to Runner.__init__
  activities,       \* self.activities
  agent_hierarchy,  \* self.agent_hierarchy
  marked,           \* capabilities carrying the activity-definition attribute
  defns,            \* the calls of activity.defn made so far, in order
  constructs,       \* Runner constructions made so far
  client,           \* self.client: None or the number of the connection
  worker,           \* self.worker: None or the number of the Worker
  worker_task,      \* self.worker_task: None or the number of the task
  workflow_id,      \* self.workflow_id: None or the identifier
  pc,               \* the caller's position
  tasks,            \* state of every background task created, by number
  workflows,        \* identifiers of the workflows the engine has started
  records,          \* the progress records of every started workflow, in arrival order
  connects,         \* Client.connect attempts made so far
  enters,           \* __aenter__ calls made so far
  uuids,            \* identifiers drawn from uuid.uuid4 so far
  call,             \* the call in progress (or the last one): what it issued
  pre,              \* the Session State when that call began
  last              \* the outcome of the last call that ended

treeVars == <<agent, activities, agent_hierarchy, marked, defns, constructs>>
sessVars == <<client, worker, worker_task, workflow_id>>
envVars  == <<tasks, workflows, records>>
cntVars  == <<connects, enters, uuids>>
vars == <<agent, activities, agent_hierarchy, marked, defns, constructs,
          client, worker, worker_task, workflow_id, pc, tasks, workflows, records,
          connects, enters, uuids, call, pre, last>>

SessionState ==
  [client |-> client, worker |-> worker,
   worker_task |-> worker_task, workflow_id |-> workflow_id]

NoCall ==
  [op |-> "none", arg |-> None, connects |-> 0, starts |-> 0, updates |-> 0,
   queries |-> 0, cancels |-> 0, target |-> None, sent |-> None]
NewCall(op, arg) == [NoCall EXCEPT !.op = op, !.arg = arg]
Outcome(op, status, value) == [op |-> op, status |-> status, value |-> value]

\* ---------------------------------------------------------- Runner.__init__
InitSession ==
  /\ client = None
  /\ worker = None
  /\ worker_task = None
  /\ workflow_id = None
  /\ tasks = <<>>
  /\ workflows = {}
  /\ records = <<>>
  /\ connects = 0
  /\ enters = 0
  /\ uuids = 0
  /\ call = NoCall
  /\ pre = SessionState
  /\ last = Outcome("none", "none", None)

\* The state after Runner(app_name, DefaultAgent) returned.
Init ==
  LET r == _functions_to_activities(DefaultAgent, {})
  IN  /\ agent = DefaultAgent
      /\ activities = r.functions
      /\ agent_hierarchy = _agent_hierarchy(DefaultAgent)
      /\ marked = r.marked
      /\ defns = r.defns
      /\ constructs = 1
      /\ pc = "idle"
      /\ InitSession

\* Before any Runner is constructed: the caller holds a root agent without
\* capabilities or sub-agents, and no capability is marked.
InitTree ==
  /\ agent \in { Leaf(nm, <<>>) : nm \in Names }
  /\ activities = None
  /\ agent_hierarchy = None
  /\ marked = {}
  /\ defns = <<>>
  /\ constructs = 0
  /\ pc = "new"
  /\ InitSession

\* The caller builds the agent tree before it constructs the Runner.
AddFunction(p, fn) ==
  /\ pc = "new"
  /\ Cardinality(Occurrences(agent)) < MaxFns
  /\ agent' = WithFunction(agent, p, fn)
  /\ UNCHANGED <<activities, agent_hierarchy, marked, defns, constructs, sessVars, pc,
                 envVars, cntVars, call, pre, last>>

AddSubAgent(p, nm) ==
  /\ pc = "new"
  /\ Cardinality(PathsOf(agent)) < MaxNodes
  /\ agent' = WithSubAgent(agent, p, Leaf(nm, <<>>))
  /\ UNCHANGED <<activities, agent_hierarchy, marked, defns, constructs, sessVars, pc,
                 envVars, cntVars, call, pre, last>>

\* The caller appends a sub-agent to a tree whose agents have no
\* capabilities.
AddNamedAgent(p, nm) ==
  /\ pc = "new"
  /\ Occurrences(agent) = {}
  /\ Cardinality(PathsOf(agent)) < MaxAgents
  /\ agent' = WithSubAgent(agent, p, Leaf(nm, <<>>))
  /\ UNCHANGED <<activities, agent_hierarchy, marked, defns, constructs, sessVars, pc,
                 envVars, cntVars, call, pre, last>>

\* Runner(app_name, agent): lines 35-40.  A second construction on the same
\* agent finds the capabilities already marked.
Construct ==
  /\ pc \in {"new", "idle"}
  /\ constructs < MaxConstructs
  /\ constructs' = constructs + 1
  /\ LET r == _functions_to_activities(agent, marked)
     IN  /\ activities' = r.functions
         /\ marked' = r.marked
         /\ defns' = defns \o r.defns
  /\ agent_hierarchy' = _agent_hierarchy(agent)
  /\ client' = None
  /\ worker' = None
  /\ worker_task' = None
  /\ workflow_id' = None
  /\ pc' = "idle"
  /\ UNCHANGED <<agent, envVars, cntVars, call, pre, last>>

\* ------------------------------------------------------- the engine's side
\* The connection is made and not stored.
NewClientDropped(n) == None
\* Client.connect succeeded: the client is the connection of this attempt.
NewClient(n) == Some(n)

\* asyncio.create_task(self.worker.run()): a new task, running.
NewTask(ts) == Append(ts, "running")

\* In place of uuid.uuid4: the identifier drawn first, again.
StaleUuid(n) == Some(1)
\* str(uuid.uuid4()): an identifier never drawn before.
Uuid4(n) == Some(n + 1)

\* The task is not asked to stop.
NoCancel(ts, h) == ts
\* Task.cancel(): a running task is asked to stop; a finished task is left.
Cancel(ts, h) ==
  IF ts[Num(h)] = "running" THEN [ts EXCEPT ![Num(h)] = "cancelling"] ELSE ts

\* The worker acknowledges the cancellation: the task ends cancelled.
WorkerStop(t) ==
  /\ tasks[t] = "cancelling"
  /\ tasks' = [tasks EXCEPT ![t] = "cancelled"]
  /\ UNCHANGED <<treeVars, sessVars, pc, workflows, records, cntVars, call, pre, last>>

\* Worker.run raises: the task ends with an exception that is not the
\* cancellation, while serving or while shutting down.
WorkerCrash(t) ==
  /\ tasks[t] \in {"running", "cancelling"}
  /\ tasks' = [tasks EXCEPT ![t] = "failed"]
  /\ UNCHANGED <<treeVars, sessVars, pc, workflows, records, cntVars, call, pre, last>>

\* ------------------------------------------------------- Runner.__aenter__
\* Line 101: await self._connect() is issued.
EnterBegin ==
  /\ pc = "idle"
  /\ enters < MaxEnter
  /\ connects < MaxConnects
  /\ pc' = "enter_connect"
  /\ enters' = enters + 1
  /\ connects' = connects + 1
  /\ call' = [NewCall("enter", None) EXCEPT !.connects = 1]
  /\ pre' = SessionState
  /\ UNCHANGED <<treeVars, sessVars, envVars, uuids, last>>

\* The failure of Client.connect is raised after the client was reset.
EnterConnectFailReset ==
  /\ pc = "enter_connect"
  /\ client' = None
  /\ pc' = "idle"
  /\ last' = Outcome("enter", "connect_error", None)
  /\ UNCHANGED <<treeVars, worker, worker_task, workflow_id, envVars, cntVars, call, pre>>

\* Client.connect raises: __aenter__ raises at line 101.
EnterConnectFail ==
  /\ pc = "enter_connect"
  /\ pc' = "idle"
  /\ last' = Outcome("enter", "connect_error", None)
  /\ UNCHANGED <<treeVars, sessVars, envVars, cntVars, call, pre>>

\* Client.connect returns; lines 104-122 run up to the await of
\* start_workflow: the Worker is bound, its task is created, the identifier
\* is drawn and stored, and the start of the workflow is requested.
\* vertexai.init, LLMManager and the Worker constructor belong to the
\* collaborators and are taken to return.
EnterConnectOK ==
  /\ pc = "enter_connect"
  /\ client' = NewClient(connects)
  /\ worker' = Some(Len(tasks) + 1)
  /\ worker_task' = Some(Len(tasks) + 1)
  /\ tasks' = NewTask(tasks)
  /\ workflow_id' = Uuid4(uuids)
  /\ uuids' = uuids + 1
  /\ call' = [call EXCEPT !.starts = @ + 1, !.target = workflow_id']
  /\ pc' = "enter_start"
  /\ UNCHANGED <<treeVars, workflows, records, connects, enters, pre, last>>

\* The engine starts a workflow: it has produced no record yet.
Started(rs, ws, id) ==
  [i \in ws \cup {id} |-> IF i \in ws THEN rs[i] ELSE <<>>]

\* start_workflow returns: the engine has started the workflow; line 129.
EnterStartOK ==
  /\ pc = "enter_start"
  /\ workflows' = workflows \cup {call.target}
  /\ records' = Started(records, workflows, call.target)
  /\ pc' = "idle"
  /\ last' = Outcome("enter", "ok", None)
  /\ UNCHANGED <<treeVars, sessVars, tasks, cntVars, call, pre>>

\* start_workflow raises (duplicate identifier, remote rejection): __aenter__
\* raises at line 122; nothing of lines 109-119 is undone.
EnterStartFail ==
  /\ pc = "enter_start"
  /\ pc' = "idle"
  /\ last' = Outcome("enter", "start_error", None)
  /\ UNCHANGED <<treeVars, sessVars, envVars, cntVars, call, pre>>

\* -------------------------------------------------------- Runner.__aexit__
\* Line 136 finds no task: lines 144-145.
ExitNoTask ==
  /\ pc = "idle"
  /\ worker_task = None
  /\ worker' = None
  /\ client' = None
  /\ call' = NewCall("exit", None)
  /\ pre' = SessionState
  /\ last' = Outcome("exit", "ok", None)
  /\ UNCHANGED <<treeVars, worker_task, workflow_id, pc, envVars, cntVars>>

\* Lines 136-139: the task is cancelled and awaited.
ExitCancel ==
  /\ pc = "idle"
  /\ worker_task # None
  /\ tasks' = Cancel(tasks, worker_task)
  /\ call' = [NewCall("exit", None) EXCEPT !.cancels = 1]
  /\ pre' = SessionState
  /\ pc' = "exit_await"
  /\ UNCHANGED <<treeVars, sessVars, workflows, records, cntVars, last>>

\* Lines 144-145 run without the task having ended.
ExitCleanupEarly ==
  /\ pc = "exit_await"
  /\ worker' = None
  /\ client' = None
  /\ pc' = "idle"
  /\ last' = Outcome("exit", "ok", None)
  /\ UNCHANGED <<treeVars, worker_task, workflow_id, envVars, cntVars, call, pre>>

\* The exit also terminates the root workflow on the engine.
ExitCleanupTerminating ==
  /\ pc = "exit_await"
  /\ tasks[Num(worker_task)] = "cancelled"
  /\ worker' = None
  /\ client' = None
  /\ workflows' = workflows \ {workflow_id}
  /\ records' = [i \in workflows \ {workflow_id} |-> records[i]]
  /\ pc' = "idle"
  /\ last' = Outcome("exit", "ok", None)
  /\ UNCHANGED <<treeVars, worker_task, workflow_id, tasks, cntVars, call, pre>>

\* The awaited task ended cancelled: CancelledError is caught at line 140,
\* lines 144-145 run.
ExitCleanup ==
  /\ pc = "exit_await"
  /\ tasks[Num(worker_task)] = "cancelled"
  /\ worker' = None
  /\ client' = None
  /\ pc' = "idle"
  /\ last' = Outcome("exit", "ok", None)
  /\ UNCHANGED <<treeVars, worker_task, workflow_id, envVars, cntVars, call, pre>>

\* The awaited task ended with another exception: line 139 raises it, no
\* handler catches it, lines 144-145 do not run.
ExitRaise ==
  /\ pc = "exit_await"
  /\ tasks[Num(worker_task)] = "failed"
  /\ pc' = "idle"
  /\ last' = Outcome("exit", "task_error", None)
  /\ UNCHANGED <<treeVars, sessVars, envVars, cntVars, call, pre>>

\* ----------------------------------------------------------- Runner.prompt
\* handle.execute_update is issued once more than the code issues it.
IssueUpdateTwice(c, id) ==
  [c EXCEPT !.updates = @ + 2, !.target = id, !.sent = c.arg]
\* Lines 72-73: the handle of self.workflow_id, one execute_update on it.
IssueUpdate(c, id) ==
  [c EXCEPT !.updates = @ + 1, !.target = id, !.sent = c.arg]

\* The workflow's answer to an update (computed by the workflow).
Reply(p) == <<"reply", p>>

\* Line 69 finds no client: await self._connect() is issued.
PromptConnect(p) ==
  /\ pc = "idle"
  /\ client = None
  /\ connects < MaxConnects
  /\ connects' = connects + 1
  /\ call' = [NewCall("prompt", p) EXCEPT !.connects = 1]
  /\ pre' = SessionState
  /\ pc' = "prompt_connect"
  /\ UNCHANGED <<treeVars, sessVars, envVars, enters, uuids, last>>

PromptConnectFail ==
  /\ pc = "prompt_connect"
  /\ pc' = "idle"
  /\ last' = Outcome("prompt", "connect_error", None)
  /\ UNCHANGED <<treeVars, sessVars, envVars, cntVars, call, pre>>

PromptConnectOK ==
  /\ pc = "prompt_connect"
  /\ client' = NewClient(connects)
  /\ call' = IssueUpdate(call, workflow_id)
  /\ pc' = "prompt_update"
  /\ UNCHANGED <<treeVars, worker, worker_task, workflow_id, envVars, cntVars, pre, last>>

\* Line 69 finds a client: the update is issued at once.
PromptUpdate(p) ==
  /\ pc = "idle"
  /\ client # None
  /\ call' = IssueUpdate(NewCall("prompt", p), workflow_id)
  /\ pre' = SessionState
  /\ pc' = "prompt_update"
  /\ UNCHANGED <<treeVars, sessVars, envVars, cntVars, last>>

\* The addressed workflow processed the update: line 74 returns its answer.
\* Only a workflow the engine has started can answer; which worker served it
\* (one of this Runner or of another process on the task queue) is left open.
PromptReturn ==
  /\ pc = "prompt_update"
  /\ call.target \in workflows
  /\ pc' = "idle"
  /\ last' = Outcome("prompt", "ok", Reply(call.sent))
  /\ UNCHANGED <<treeVars, sessVars, envVars, cntVars, call, pre>>

\* execute_update raises (workflow not found, remote failure, timeout).
PromptRemoteError ==
  /\ pc = "prompt_update"
  /\ pc' = "idle"
  /\ last' = Outcome("prompt", "remote_error", None)
  /\ UNCHANGED <<treeVars, sessVars, envVars, cntVars, call, pre>>

\* --------------------------------------------------------- Runner.thoughts
\* The query is issued with watermark 0 whatever the caller passed.
IssueQueryFromStart(c, id) ==
  [c EXCEPT !.queries = @ + 1, !.target = id, !.sent = 0]
\* Lines 55-56: the handle of self.workflow_id, one query on it, carrying
\* the caller's watermark.
IssueQuery(c, id) ==
  [c EXCEPT !.queries = @ + 1, !.target = id, !.sent = c.arg]

\* The workflow's answer to the query get_model_content(watermark): its
\* records from position watermark (zero-based) on.
Content(id, w) == SubSeq(records[id], w + 1, Len(records[id]))

\* A started workflow produces its next progress record; a record is the
\* number of its arrival.
WorkflowThinks(id) ==
  /\ Len(records[id]) < MaxRecords
  /\ records' = [records EXCEPT ![id] = Append(@, Len(@) + 1)]
  /\ UNCHANGED <<treeVars, sessVars, pc, tasks, workflows, cntVars, call, pre, last>>

ThoughtsConnect(w) ==
  /\ pc = "idle"
  /\ client = None
  /\ connects < MaxConnects
  /\ connects' = connects + 1
  /\ call' = [NewCall("thoughts", w) EXCEPT !.connects = 1]
  /\ pre' = SessionState
  /\ pc' = "thoughts_connect"
  /\ UNCHANGED <<treeVars, sessVars, envVars, enters, uuids, last>>

ThoughtsConnectFail ==
  /\ pc = "thoughts_connect"
  /\ pc' = "idle"
  /\ last' = Outcome("thoughts", "connect_error", None)
  /\ UNCHANGED <<treeVars, sessVars, envVars, cntVars, call, pre>>

ThoughtsConnectOK ==
  /\ pc = "thoughts_connect"
  /\ client' = NewClient(connects)
  /\ call' = IssueQuery(call, workflow_id)
  /\ pc' = "thoughts_query"
  /\ UNCHANGED <<treeVars, worker, worker_task, workflow_id, envVars, cntVars, pre, last>>

ThoughtsQuery(w) ==
  /\ pc = "idle"
  /\ client # None
  /\ call' = IssueQuery(NewCall("thoughts", w), workflow_id)
  /\ pre' = SessionState
  /\ pc' = "thoughts_query"
  /\ UNCHANGED <<treeVars, sessVars, envVars, cntVars, last>>

ThoughtsReturn ==
  /\ pc = "thoughts_query"
  /\ call.target \in workflows
  /\ pc' = "idle"
  /\ last' = Outcome("thoughts", "ok", Content(call.target, call.sent))
  /\ UNCHANGED <<treeVars, sessVars, envVars, cntVars, call, pre>>

ThoughtsRemoteError ==
  /\ pc = "thoughts_query"
  /\ pc' = "idle"
  /\ last' = Outcome("thoughts", "remote_error", None)
  /\ UNCHANGED <<treeVars, sessVars, envVars, cntVars, call, pre>>

\* ------------------------------------------------------------ specifications
Next ==
  \/ EnterBegin
  \/ EnterConnectFail
  \/ EnterConnectOK
  \/ EnterStartOK
  \/ EnterStartFail
  \/ ExitNoTask
  \/ ExitCancel
  \/ ExitCleanup
  \/ ExitRaise
  \/ \E p \in Prompts : PromptConnect(p)
  \/ PromptConnectFail
  \/ PromptConnectOK
  \/ \E p \in Prompts : PromptUpdate(p)
  \/ PromptReturn
  \/ PromptRemoteError
  \/ \E w \in 0..MaxWatermark : ThoughtsConnect(w)
  \/ ThoughtsConnectFail
  \/ ThoughtsConnectOK
  \/ \E w \in 0..MaxWatermark : ThoughtsQuery(w)
  \/ ThoughtsReturn
  \/ ThoughtsRemoteError
  \/ \E t \in DOMAIN tasks : WorkerStop(t)
  \/ \E t \in DOMAIN tasks : WorkerCrash(t)
  \/ \E id \in workflows : WorkflowThinks(id)

\* The session of one Runner built on DefaultAgent.
Spec == Init /\ [][Next]_vars

NextTree ==
  \/ \E p \in PathsOf(agent), fn \in Caps : AddFunction(p, fn)
  \/ \E p \in PathsOf(agent), nm \in Names : AddSubAgent(p, nm)
  \/ Construct

\* The construction of Runners on every agent tree within the bounds.
SpecTree == InitTree /\ [][NextTree]_vars

NextNames ==
  \/ \E p \in PathsOf(agent), nm \in Names : AddNamedAgent(p, nm)
  \/ Construct

\* The construction of Runners on every tree of named agents within MaxAgents.
SpecNames == InitTree /\ [][NextNames]_vars

\* The session under the scheduling of the event loop: a coroutine whose
\* awaited task has ended is resumed, and a worker asked to stop
\* acknowledges the cancellation unless it fails first.
SpecLive ==
  /\ Spec
  /\ WF_vars(ExitCleanup)
  /\ WF_vars(ExitRaise)
  /\ WF_vars(\E t \in DOMAIN tasks : WorkerStop(t))

\* =================================================================== claims
Idle == pc = "idle"
ExitEnded == Idle /\ call.op = "exit" /\ last.op = "exit"
EnterEnded == Idle /\ call.op = "enter" /\ last.op = "enter"
PromptEnded == Idle /\ call.op = "prompt" /\ last.op = "prompt"
TaskRunning(h) == h # None /\ tasks[Num(h)] = "running"

\* C1: after __aexit__ returns, the Session State is fully cleared: client,
\* worker, worker_task and workflow_id are all None.
C1_ExitClearsSessionState ==
  (ExitEnded /\ last.status = "ok") =>
    /\ client = None
    /\ worker = None
    /\ worker_task = None
    /\ workflow_id = None

\* C2: when the awaited worker task ended with an exception other than the
\* cancellation, __aexit__ still returns without raising and clears worker
\* and client.
C2_ExitSurvivesWorkerFailure ==
  (ExitEnded /\ call.cancels = 1 /\ tasks[Num(worker_task)] = "failed") =>
    /\ last.status = "ok"
    /\ worker = None
    /\ client = None

\* C3: after __aenter__ failed, no background worker task of the Runner is
\* running and no worker handle is held.
C3_FailedEnterLeavesNoWorker ==
  (EnterEnded /\ last.status # "ok") =>
    /\ worker = None
    /\ \A t \in DOMAIN tasks : tasks[t] \notin {"running", "cancelling"}

\* C4: __aexit__ on a Runner that never had a successful __aenter__ does not
\* raise, issues no cancellation and no engine call, and leaves the Session
\* State as it was.
C4_ExitWithoutSessionIsNoOp ==
  (call.op = "exit" /\ workflows = {}) =>
    /\ call.cancels = 0
    /\ call.connects + call.starts + call.updates + call.queries = 0
    /\ Idle => (last.status = "ok" /\ SessionState = pre)

\* C5: between calls, workflow_id is set if and only if the workflow it
\* names has been started on the engine.
C5_WorkflowIdIffStarted ==
  Idle => ((workflow_id # None) <=> (workflow_id \in workflows))

\* C6: between calls, worker is set if and only if the background worker
\* task is running.
C6_WorkerIffTaskRunning ==
  Idle => ((worker # None) <=> TaskRunning(worker_task))

\* C7: a successful __aenter__ starts exactly one workflow, under an
\* identifier no earlier entry's workflow has, and workflow_id is that
\* identifier.
C7_EnterStartsOneFreshWorkflow ==
  [][(pc = "enter_start" /\ pc' = "idle" /\ last'.status = "ok") =>
       /\ workflow_id # None
       /\ workflow_id \notin workflows
       /\ workflows' = workflows \cup {workflow_id}
       /\ workflow_id' = workflow_id
       /\ call'.starts = 1]_vars

\* Two entries have succeeded, each with its own workflow.
C7_Witness ==
  /\ EnterEnded
  /\ last.status = "ok"
  /\ Cardinality(workflows) = 2
  /\ workflow_id \in workflows

\* C8 as stated: every prompt call issues exactly one update request, and a
\* failed one leaves worker, worker_task and workflow_id unchanged.
C8_PromptIssuesExactlyOneUpdate ==
  PromptEnded =>
    /\ call.updates = 1
    /\ last.status # "ok" =>
         <<worker, worker_task, workflow_id>> = <<pre.worker, pre.worker_task, pre.workflow_id>>

\* C8 amended: a prompt call issues at most one update request: exactly one
\* when it returns or raises the remote failure, none when its lazy connect
\* fails; the call leaves worker, worker_task and workflow_id unchanged.
C8_PromptIssuesAtMostOneUpdate ==
  call.op = "prompt" =>
    /\ call.updates <= 1
    /\ pc = "prompt_update" => call.updates = 1
    /\ PromptEnded =>
         /\ last.status \in {"ok", "remote_error"} <=> call.updates = 1
         /\ last.status = "connect_error" <=> call.updates = 0
    /\ <<worker, worker_task, workflow_id>> = <<pre.worker, pre.worker_task, pre.workflow_id>>

\* A prompt inside a session ended with the remote failure.
C8_Witness ==
  /\ PromptEnded
  /\ last.status = "remote_error"
  /\ TaskRunning(worker_task)
  /\ workflow_id \in workflows

\* C9: a prompt before any __aenter__ connects first and then addresses its
\* update to the root workflow named by workflow_id, whose answer it returns.
C9_LazyPromptReachesRootWorkflow ==
  (call.op = "prompt" /\ enters = 0 /\ call.updates = 1) =>
    /\ call.target = workflow_id
    /\ call.target \in workflows

\* C10: activities is the pre-order traversal of the agent tree: every
\* capability occurrence, an agent's own in listed order before those of
\* its children, the children in listed order.
PathBefore(p, q) ==
  \E k \in 1..Len(q) :
    /\ \A j \in 1..(k - 1) : j <= Len(p) /\ p[j] = q[j]
    /\ (k > Len(p) \/ p[k] < q[k])

OccBefore(o1, o2) ==
  \/ PathBefore(o1[1], o2[1])
  \/ o1[1] = o2[1] /\ o1[2] < o2[2]

Position(ag, o) == 1 + Cardinality({ o2 \in Occurrences(ag) : OccBefore(o2, o) })

C10_ActivitiesArePreOrder ==
  pc # "new" =>
    /\ Len(activities) = Cardinality(Occurrences(agent))
    /\ \A o \in Occurrences(agent) :
         activities[Position(agent, o)] = NodeAt(agent, o[1]).functions[o[2]]

\* A Runner built on a root with a capability and two children, one of which
\* repeats the root's capability.
C10_Witness ==
  /\ pc = "idle"
  /\ Len(agent.sub_agents) = 2
  /\ Len(activities) = 3
  /\ Len(agent.functions) = 1
  /\ activities[1] = activities[3]
  /\ activities[1] # activities[2]

\* C12: thoughts(w) sends one query carrying w unchanged to the workflow
\* named by workflow_id and returns that workflow's records from position w
\* on, in arrival order (all of them for w = 0); no step of the call changes
\* the records.
C12_ThoughtsReturnsFromWatermark ==
  [][/\ (call'.op = "thoughts" /\ pc' # pc) =>
          /\ records' = records
          /\ call'.queries <= 1
     /\ (pc = "thoughts_query" /\ pc' = "idle" /\ last'.status = "ok") =>
          LET rs == records[call.target]
          IN  /\ call.queries = 1
              /\ call.target = workflow_id
              /\ Len(last'.value) = (IF call.arg < Len(rs) THEN Len(rs) - call.arg ELSE 0)
              /\ \A k \in DOMAIN last'.value : last'.value[k] = rs[call.arg + k]
              /\ call.arg = 0 => last'.value = rs]_vars

\* thoughts(1) returned the second of two records.
C12_Witness ==
  /\ Idle
  /\ call.op = "thoughts"
  /\ last.op = "thoughts"
  /\ last.status = "ok"
  /\ call.arg = 1
  /\ Len(last.value) = 1
  /\ last.value[1] = 2

\* C11: registration is idempotent: over any number of Runner constructions
\* and any sharing of a capability between agents, activity.defn is called at
\* most once on each capability (never on one already marked, which is the
\* only call that raises), and every registered capability is marked.
C11_EachCapabilityMarkedOnce ==
  /\ \A i, j \in DOMAIN defns : defns[i] = defns[j] => i = j
  /\ marked = { defns[i] : i \in DOMAIN defns }
  /\ pc # "new" => \A i \in DOMAIN activities : activities[i] \in marked

\* A second Runner was built on a tree in which two agents share a capability.
C11_Witness ==
  /\ constructs = 2
  /\ Len(agent.functions) = 1
  /\ Len(activities) = 3
  /\ activities[1] = activities[2]
  /\ Len(defns) = 2

\* C13: at any time at most one background worker task of the Runner is
\* running.
C13_AtMostOneWorkerTask ==
  Cardinality({ t \in DOMAIN tasks : tasks[t] \in {"running", "cancelling"} }) <= 1

\* C14: within a session the steps come in the order connect, start worker,
\* start root workflow, cancel worker, release: a worker is bound only in
\* the step in which the entry's connection succeeded, the workflow start is
\* requested only with the entry's worker task launched, and the connection
\* is released only after the worker task (if any was launched) was
\* cancelled and has ended.
C14_SessionStepsInOrder ==
  [][/\ (worker' # worker /\ worker' # None) =>
          /\ pc = "enter_connect"
          /\ call.connects = 1
          /\ client' = Some(connects)
     /\ (call'.starts > call.starts) =>
          /\ worker_task' # None
          /\ worker_task' # worker_task
          /\ Num(worker_task') \in DOMAIN tasks'
          /\ tasks'[Num(worker_task')] = "running"
          /\ call'.target = workflow_id'
     /\ (client # None /\ client' = None) =>
          \/ worker_task = None
          \/ /\ call.op = "exit"
             /\ call.cancels = 1
             /\ tasks[Num(worker_task)] = "cancelled"]_vars

\* A session was entered and left: the connection went after the cancellation.
C14_Witness ==
  /\ ExitEnded
  /\ last.status = "ok"
  /\ call.cancels = 1
  /\ pre.client # None
  /\ client = None
  /\ workflow_id \in workflows
  /\ tasks[Num(worker_task)] = "cancelled"

TaskEnded(h) ==
  IF h = None THEN FALSE ELSE tasks[Num(h)] \in {"cancelled", "failed"}

\* C15: an exit that finds a worker task issues exactly one cancellation and
\* ends only after that task has ended; it returns when the task ended
\* cancelled; and once the exit awaits the task it eventually ends, with the
\* task not running.
C15_ExitCancelsOnceAndReturns ==
  /\ [](IF call.op = "exit" /\ pre.worker_task # None THEN call.cancels = 1 ELSE TRUE)
  /\ [](IF ExitEnded /\ worker_task # None
        THEN /\ TaskEnded(worker_task)
             /\ tasks[Num(worker_task)] = "cancelled" => last.status = "ok"
        ELSE TRUE)
  /\ (pc = "exit_await") ~> (IF ExitEnded THEN TaskEnded(worker_task) ELSE FALSE)

\* The exit of a session returned after the worker acknowledged.
C15_Witness ==
  /\ ExitEnded
  /\ last.status = "ok"
  /\ call.cancels = 1
  /\ workflow_id \in workflows
  /\ tasks[Num(worker_task)] = "cancelled"
  /\ worker = None

\* C16: when Client.connect fails in __aenter__, the entry raises after that
\* one attempt: no worker bound, no task launched, no workflow started, and
\* the Session State as it was before the entry.
C16_ConnectFailureLeavesStateIntact ==
  [][(pc = "enter_connect" /\ pc' = "idle" /\ last'.status = "connect_error") =>
       /\ last'.op = "enter"
       /\ call'.connects = 1
       /\ call'.starts = 0
       /\ UNCHANGED <<client, worker, worker_task, workflow_id, tasks, workflows>>
       /\ SessionState' = pre']_vars

\* An entry failed at connect on a Runner that holds an earlier session.
C16_Witness ==
  /\ EnterEnded
  /\ last.status = "connect_error"
  /\ client # None
  /\ worker # None
  /\ workflow_id \in workflows

\* C17: the Hierarchy Descriptor of an agent has exactly the names of its
\* children as keys, each mapped to the descriptor of the child of that name
\* (the later one when two siblings share it), recursively; two childless
\* children of different names give two keys mapped to empty descriptors.
RECURSIVE DescribesChildren(_, _)
DescribesChildren(h, ag) ==
  LET subs == ag.sub_agents
  IN  /\ DOMAIN h = { subs[i].name : i \in DOMAIN subs }
      /\ \A i \in DOMAIN subs :
           (\A j \in DOMAIN subs : j > i => subs[j].name # subs[i].name) =>
             DescribesChildren(h[subs[i].name], subs[i])

C17_HierarchyDescribesChildren ==
  pc # "new" =>
    /\ DescribesChildren(agent_hierarchy, agent)
    /\ (/\ Len(agent.sub_agents) = 2
        /\ agent.sub_agents[1].name # agent.sub_agents[2].name
        /\ \A i \in 1..2 : agent.sub_agents[i].sub_agents = <<>>) =>
         /\ Cardinality(DOMAIN agent_hierarchy) = 2
         /\ \A nm \in DOMAIN agent_hierarchy : DOMAIN agent_hierarchy[nm] = {}

\* Two siblings share a name; the earlier has a child, the later has none,
\* and the entry of that name is the later one's empty descriptor.
C17_Witness ==
  /\ pc = "idle"
  /\ Len(agent.sub_agents) = 2
  /\ agent.sub_agents[1].name = agent.sub_agents[2].name
  /\ Len(agent.sub_agents[1].sub_agents) = 1
  /\ Len(agent.sub_agents[2].sub_agents) = 0
  /\ DOMAIN agent_hierarchy = {agent.sub_agents[2].name}
  /\ DOMAIN agent_hierarchy[agent.sub_agents[2].name] = {}

\* C18: after a successful __aenter__ all four fields are set, and no step
\* of a prompt or thoughts call changes worker, worker_task or workflow_id
\* or unsets a field, so they stay set until the exit begins.
AllSet ==
  /\ client # None
  /\ worker # None
  /\ worker_task # None
  /\ workflow_id # None

C18_SessionFieldsStayThroughCalls ==
  /\ [](EnterEnded /\ last.status = "ok" => AllSet)
  /\ [][call'.op \in {"prompt", "thoughts"} =>
          /\ <<worker', worker_task', workflow_id'>> = <<worker, worker_task, workflow_id>>
          /\ AllSet => AllSet']_vars

\* A prompt returned inside a session with the four fields set.
C18_Witness ==
  /\ PromptEnded
  /\ last.status = "ok"
  /\ AllSet
  /\ TaskRunning(worker_task)
  /\ workflow_id \in workflows

\* C19: __aexit__ sends nothing to the engine: no step of an exit changes the
\* started workflows or their records, and no step at all removes a workflow,
\* so every workflow ever started stays on the engine.
C19_ExitLeavesWorkflows ==
  [][/\ workflows \subseteq workflows'
     /\ \A id \in workflows : Len(records[id]) <= Len(records'[id])
     /\ call'.op = "exit" =>
          /\ workflows' = workflows
          /\ call'.starts + call'.updates + call'.queries + call'.connects = 0
          /\ records' # records => UNCHANGED <<pc, call, last, client, worker>>]_vars

\* Two sessions were entered and left; both workflows are still there.
C19_Witness ==
  /\ ExitEnded
  /\ last.status = "ok"
  /\ call.cancels = 1
  /\ Cardinality(workflows) = 2
  /\ tasks[Num(worker_task)] = "cancelled"
  /\ Num(worker_task) = 2

====
